---- MODULE Spec2Model ----
(***************************************************************************)
(* A model of the Hyperliquid wallet monitor (src/src/monitor.py): the     *)
(* deduplication ledger (self.logs and logs/state.json), the in-memory     *)
(* tracker of active orders, the two aggregators and the watch loop.       *)
(*                                                                         *)
(* Every handler is a set-valued operator over a record st that holds the  *)
(* watcher's fields: it returns the set of states the handler can end in,  *)
(* one for each outcome of the external calls it makes (the result of a    *)
(* status lookup, the outcome of a write of the ledger file).              *)
(***************************************************************************)
EXTENDS Integers, Sequences, FiniteSets, TLC

VARIABLES
    logs,             \* self.logs: the in-memory ledger
    disk,             \* the content of logs/state.json
    active_orders,    \* self.active_orders, in insertion order
    order_aggregator, \* self.order_aggregator
    fill_aggregator,  \* self.fill_aggregator
    pc,               \* the watch loop's position: the step it takes next
    idx,              \* the watch loop's position in self.addresses
    cycle,            \* sleeps of this process so far
    restarts,         \* process restarts so far
    last,             \* history: the step taken last and its address
    before,           \* history: what the last step found when it began
    listing,          \* history: per address, the open orders fetched last
    fillListing,      \* history: per address, the fills fetched last
    emitted,          \* history: the alerts the last step emitted
    lookups,          \* history: the status lookups the last step issued
    writes,           \* history: the log_event calls of the last step
    durable,          \* history: the entries whose latest write succeeded
    call,             \* history: the last call of a pure function
    env               \* what the exchange and the file system can do in this run

vars == <<logs, disk, active_orders, order_aggregator, fill_aggregator, pc, idx,
          cycle, restarts, last, before, listing, fillListing, emitted, lookups, writes,
          durable, call, env>>

----------------------------------------------------------------------------
(* Bounds of the model *)

\* timestamps of orders, fills and status changes are 1..MaxTs
MaxTs == 2
\* the exchange returns at most MaxBatch records in one listing
MaxBatch == 2
\* the watch loop sleeps at most MaxCycles times in one process
MaxCycles == 1
\* the process is restarted at most MaxRestarts times
MaxRestarts == 1
\* an aggregator is handed at most MaxAdds records between two clears
MaxAdds == 3

----------------------------------------------------------------------------
(* Python values *)

None == "None"

EmptyMap == [k \in {} |-> 0]

\* d[k] = v
Put(d, k, v) == [x \in DOMAIN d \cup {k} |-> IF x = k THEN v ELSE d[x]]

\* d.get(k, default)
Get(d, k, default) == IF k \in DOMAIN d THEN d[k] ELSE default

\* str(d.get(k, default)) for a key that holds an integer when present
StrGet(d, k, default) == IF k \in DOMAIN d THEN ToString(d[k]) ELSE default

RECURSIVE GCD(_, _)
GCD(a, b) == IF b = 0 THEN a ELSE GCD(b, a % b)

\* the quotient n / d of two floats that hold naturals, as a reduced fraction
Quotient(n, d) == LET g == GCD(n, d) IN <<n \div g, d \div g>>

Range(s) == {s[i] : i \in DOMAIN s}

\* a dict that is iterated, as the sequence of its items in insertion order
Keys(d) == [i \in DOMAIN d |-> d[i].key]

HasKey(d, k) == \E i \in DOMAIN d : d[i].key = k

Item(d, k) == d[CHOOSE i \in DOMAIN d : d[i].key = k].value

\* d[k] = v on a dict in insertion order: an existing key keeps its place
SetItem(d, k, v) ==
    IF HasKey(d, k)
    THEN [i \in DOMAIN d |-> IF d[i].key = k THEN [key |-> k, value |-> v] ELSE d[i]]
    ELSE Append(d, [key |-> k, value |-> v])

\* d.pop(k, None)
PopItem(d, k) == SelectSeq(d, LAMBDA e : e.key # k)

----------------------------------------------------------------------------
(* The exchange: what the client can return *)

\* config.addresses, the list the watcher is constructed with
addresses == <<"0xA", "0xB">>

Timestamps == 1..MaxTs

CoinOf(id) == IF id \in {1, 2, 11} THEN "BTC" ELSE "ETH"

SideOf(id) == IF id \in {1, 2, 11} THEN "B" ELSE "A"

SzOf(id) == CASE id \in {1, 11} -> 1 [] id \in {2, 12} -> 3 [] OTHER -> 2

PxOf(id) == CASE id \in {1, 11} -> 100 [] id \in {2, 12} -> 200 [] OTHER -> 50

\* one element of the frontendOpenOrders response
Order(oid, ts) ==
    [oid |-> oid, timestamp |-> ts, coin |-> CoinOf(oid), side |-> SideOf(oid),
     sz |-> SzOf(oid), limitPx |-> PxOf(oid), orderType |-> "Limit"]

\* one element of the userFillsByTime response
Fill(tid, ts) ==
    [tid |-> tid, time |-> ts, coin |-> CoinOf(tid), side |-> SideOf(tid),
     sz |-> SzOf(tid), px |-> PxOf(tid)]

\* an element of a listing that is not a JSON object (null, a string):
\* order.get raises AttributeError on it
NotAnObject == [notdict |-> TRUE]

IsObject(record) == "notdict" \notin DOMAIN record

\* a size or price that float() raises on (null, a text that is no number);
\* the sizes and prices of the exchange are never negative
NotANumber == -1

SeqsUpTo(S, n) == UNION {[1..k -> S] : k \in 0..n}

\* get_open_orders(address): a list, empty on any failure
get_open_orders(address) == SeqsUpTo(env.orders[address], MaxBatch)

\* get_fills(address): a list, empty on any failure
get_fills(address) == SeqsUpTo(env.fills[address], MaxBatch)

\* the statuses an order can have: the exchange's, "triggered" standing for
\* those the code does not name
Statuses == {"open", "filled", "canceled", "rejected", "marginCanceled", "triggered"}

\* the simplified record get_order_status builds from a response
StatusData(status, timestamp, coin) ==
    [status |-> status, statusTimestamp |-> timestamp, coin |-> coin]

\* get_order_status(address, order_id): None (here the empty map, falsy as
\* None is), or the simplified status record
get_order_status(address, order_id) ==
    {EmptyMap} \cup
    {StatusData(s, t, CoinOf(CHOOSE o \in 1..3 : ToString(o) = order_id)) :
        s \in env.statuses, t \in env.statusTimestamps}

\* The runs the model explores. Each bounds what the exchange returns and what
\* a write of the ledger file can do, so that the whole is explorable; every
\* order identifier belongs to one wallet, as on the exchange.
Exchange(ordersA, ordersB, fillsA, statuses, statusTimestamps, saves, mayRestart) ==
    [orders |-> [a \in {"0xA", "0xB"} |-> IF a = "0xA" THEN ordersA ELSE ordersB],
     fills |-> [a \in {"0xA", "0xB"} |-> IF a = "0xA" THEN fillsA ELSE {}],
     statuses |-> statuses, statusTimestamps |-> statusTimestamps,
     saves |-> saves, restarts |-> mayRestart]

\* one wallet's orders, any timestamps, listed twice or with two timestamps
RepeatedOrders ==
    Exchange({Order(o, t) : o \in {1, 2}, t \in Timestamps}, {}, {}, {}, {},
             {"written"}, FALSE)

\* one wallet's fills, likewise
RepeatedFills ==
    Exchange({}, {}, {Fill(f, t) : f \in {11, 12}, t \in Timestamps}, {}, {},
             {"written"}, FALSE)

\* two wallets whose orders appear, disappear and are canceled
TwoWallets ==
    Exchange({Order(1, 1), Order(2, 1)}, {Order(3, 1)}, {}, {"open", "canceled"},
             {1}, {"written"}, FALSE)

\* one order through every status
OneOrder ==
    Exchange({Order(1, t) : t \in Timestamps}, {}, {}, Statuses, Timestamps,
             {"written"}, FALSE)

\* writes of the ledger file that fail, and a restart of the process
FailingWrites ==
    Exchange({Order(1, t) : t \in Timestamps}, {}, {Fill(11, 1)}, {"canceled"}, {1},
             {"written", "unchanged", "truncated"}, TRUE)

\* orders that lack their identifier or their timestamp, among well-formed ones
MissingOrderFields ==
    Exchange({Order(1, 1),
              [timestamp |-> 1, coin |-> "BTC", side |-> "B", sz |-> 3, limitPx |-> 200],
              [oid |-> 2, coin |-> "BTC", side |-> "B", sz |-> 3, limitPx |-> 200]},
             {}, {}, {"canceled"}, {1}, {"written"}, FALSE)

\* fills that lack their identifier or their timestamp, likewise
MissingFillFields ==
    Exchange({}, {},
             {Fill(11, 1),
              [time |-> 1, coin |-> "BTC", side |-> "B", sz |-> 3, px |-> 200],
              [tid |-> 12, coin |-> "BTC", side |-> "B", sz |-> 3, px |-> 200]},
             {}, {}, {"written"}, FALSE)

\* listings of orders that processing raises on: an element that is no
\* object, with failing writes of the ledger file
BadOrders ==
    Exchange({Order(1, 1), NotAnObject}, {Order(3, 1)}, {}, {"canceled"}, {1},
             {"written", "unchanged"}, FALSE)

\* a size that is no number
BadSizes ==
    Exchange({[Order(2, 1) EXCEPT !.sz = NotANumber]}, {Order(3, 1)}, {}, {}, {},
             {"written"}, FALSE)

\* listings of fills that processing raises on, likewise
BadFills ==
    Exchange({}, {}, {Fill(11, 1), NotAnObject, [Fill(12, 1) EXCEPT !.px = NotANumber]},
             {}, {}, {"written"}, FALSE)

Exchanges ==
    {RepeatedOrders, RepeatedFills, TwoWallets, OneOrder, FailingWrites,
     MissingOrderFields, MissingFillFields}

----------------------------------------------------------------------------
(* The ledger: self.logs and logs/state.json *)

Dict(m) == [kind |-> "dict", map |-> m]

NewLedger == [orders |-> Dict(EmptyMap), fills |-> Dict(EmptyMap),
              status_changes |-> Dict(EmptyMap)]

MissingFile == [kind |-> "missing", data |-> NewLedger]

\* a file that open(.., "w") truncated and json.dump did not complete
PartialFile == [kind |-> "partial", data |-> NewLedger]

ObjectFile(data) == [kind |-> "object", data |-> data]

\* a file whose JSON value is not an object: a string, a list, a number
ValueFile == [kind |-> "value", data |-> NewLedger]

\* a file that exists and that open() or read() fails on
UnreadableFile == [kind |-> "unreadable", data |-> NewLedger]

\* load_logs that returns the object as it is stored
load_logs_as_stored(file) == IF file.kind = "object" THEN file.data ELSE NewLedger

\* load_logs: the stored object with the three namespaces defaulted, or the
\* empty ledger when there is no file, it is not JSON, or not an object
load_logs(file) ==
    IF file.kind = "object"
    THEN [ns \in DOMAIN file.data \cup {"orders", "fills", "status_changes"} |->
            Get(file.data, ns, Dict(EmptyMap))]
    ELSE NewLedger

\* the outcomes of save_logs: the file written; open() failed and the file is
\* as it was; the file truncated and the dump failed
\* save_logs that, when the write fails, falls back on what the file holds
save_logs_rollback(st) ==
    {CASE outcome = "written" ->
            [st EXCEPT !.disk = ObjectFile(st.logs), !.saved = outcome]
       [] outcome = "unchanged" ->
            [st EXCEPT !.logs = load_logs(st.disk), !.saved = outcome]
       [] outcome = "truncated" ->
            [st EXCEPT !.disk = PartialFile, !.logs = NewLedger, !.saved = outcome] :
     outcome \in env.saves}

\* `saved` is history: the outcome of the call
save_logs(st) ==
    {CASE outcome = "written" ->
            [st EXCEPT !.disk = ObjectFile(st.logs), !.saved = outcome]
       [] outcome = "unchanged" -> [st EXCEPT !.saved = outcome]
       [] outcome = "truncated" -> [st EXCEPT !.disk = PartialFile, !.saved = outcome] :
     outcome \in env.saves}

\* is_new_event with `except: return False`
is_new_event_fail_closed(ledger, event_type, event_id, timestamp) ==
    LET events == Get(ledger, event_type, Dict(EmptyMap))
    IN  /\ events.kind = "dict"
        /\ ~(event_id \in DOMAIN events.map /\ events.map[event_id] = timestamp)

\* is_new_event that never finds the event
is_new_event_always(ledger, event_type, event_id, timestamp) == TRUE

\* is_new_event that looks at the identifier only
is_new_event_by_id(ledger, event_type, event_id, timestamp) ==
    event_id \notin DOMAIN Get(ledger, event_type, Dict(EmptyMap)).map

is_new_event(ledger, event_type, event_id, timestamp) ==
    LET events == Get(ledger, event_type, Dict(EmptyMap))
    IN  CASE events.kind = "dict" ->
                ~(event_id \in DOMAIN events.map /\ events.map[event_id] = timestamp)
          [] events.kind \in {"list", "str"} ->
                \* `in` is evaluated; events[event_id] raises TypeError
                IF event_id \in DOMAIN events.map THEN TRUE ELSE ~FALSE
          [] OTHER ->
                \* `event_id in events` raises TypeError
                TRUE

\* log_event that saves the ledger before it sets the entry
log_event_save_first(st, event_type, event_id, timestamp) ==
    {[s2 EXCEPT !.logs[event_type].map = Put(@, event_id, timestamp),
                !.writes = Append(@, [event_type |-> event_type,
                                      event_id |-> event_id,
                                      timestamp |-> timestamp,
                                      outcome |-> s2.saved])] :
        s2 \in save_logs(st)}

\* log_event; `writes` and `durable` are history: the calls made with the
\* outcome of their write, and the entries whose own write reached the file
log_event(st, event_type, event_id, timestamp) ==
    IF st.logs[event_type].kind = "dict"
    THEN LET s1 == [st EXCEPT
                      !.logs[event_type].map = Put(@, event_id, timestamp),
                      !.writes = Append(@, [event_type |-> event_type,
                                            event_id |-> event_id,
                                            timestamp |-> timestamp,
                                            outcome |-> None])]
         IN  {[s2 EXCEPT !.writes[Len(s1.writes)].outcome = s2.saved,
                         !.durable[event_type] =
                    IF s2.disk = ObjectFile(s1.logs)
                    THEN Put(@, event_id, timestamp)
                    ELSE [k \in DOMAIN @ \ {event_id} |-> @[k]]] :
                s2 \in save_logs(s1)}
    ELSE \* the item assignment raises TypeError, which log_event logs
         {st}

----------------------------------------------------------------------------
(* The aggregators *)

\* OrderAggregator.__init__, FillAggregator.__init__: coin -> side -> records,
\* both levels in insertion order, and the identifiers added
NewAggregator == [buckets |-> <<>>, ids |-> {}]

\* self.orders[coin][side].append(record) on the nested defaultdict
AppendTo(buckets, coin, side, record) ==
    LET sides == IF HasKey(buckets, coin) THEN Item(buckets, coin) ELSE <<>>
        items == IF HasKey(sides, side) THEN Item(sides, side) ELSE <<>>
    IN  SetItem(buckets, coin, SetItem(sides, side, Append(items, record)))

\* add_order without the look at order_ids
add_order_unchecked(agg, order) ==
    [buckets |-> AppendTo(agg.buckets, Get(order, "coin", None),
                          IF Get(order, "side", None) = "B" THEN "buy" ELSE "sell",
                          order),
     ids |-> agg.ids \cup {StrGet(order, "oid", None)}]

add_order(agg, order) ==
    LET order_id == StrGet(order, "oid", None)
    IN  IF order_id \notin agg.ids
        THEN [buckets |-> AppendTo(agg.buckets, Get(order, "coin", None),
                                   IF Get(order, "side", None) = "B"
                                   THEN "buy" ELSE "sell", order),
              ids |-> agg.ids \cup {order_id}]
        ELSE agg

add_fill(agg, fill) ==
    LET fill_id == StrGet(fill, "tid", None)
    IN  IF fill_id \notin agg.ids
        THEN [buckets |-> AppendTo(agg.buckets, Get(fill, "coin", None),
                                   IF Get(fill, "side", None) = "B"
                                   THEN "buy" ELSE "sell", fill),
              ids |-> agg.ids \cup {fill_id}]
        ELSE agg

RECURSIVE SumSeq(_)
SumSeq(s) == IF s = <<>> THEN 0 ELSE Head(s) + SumSeq(Tail(s))

\* the non-empty buckets in the order the nested loops of get_aggregated
\* visit them
RECURSIVE NonEmptyBuckets(_)
NonEmptyBuckets(buckets) ==
    IF buckets = <<>> THEN <<>>
    ELSE LET coin == Head(buckets).key
             sides == SelectSeq(Head(buckets).value, LAMBDA e : e.value # <<>>)
         IN  [i \in DOMAIN sides |->
                [coin |-> coin, side |-> sides[i].key, items |-> sides[i].value]]
             \o NonEmptyBuckets(Tail(buckets))

\* the statistics with the mean of the prices for the average price
TotalsUnweighted(items, price_key) ==
    LET total_size == SumSeq([i \in DOMAIN items |-> Get(items[i], "sz", 0)])
        total_volume == SumSeq([i \in DOMAIN items |->
                            Get(items[i], "sz", 0) * Get(items[i], price_key, 0)])
    IN  [total_size |-> total_size,
         avg_price |-> IF total_size > 0
                       THEN Quotient(SumSeq([i \in DOMAIN items |->
                                                Get(items[i], price_key, 0)]),
                                     Len(items))
                       ELSE <<0, 1>>,
         total_volume |-> total_volume]

\* the statistics get_aggregated computes for one bucket
Totals(items, price_key) ==
    LET total_size == SumSeq([i \in DOMAIN items |-> Get(items[i], "sz", 0)])
        total_volume == SumSeq([i \in DOMAIN items |->
                            Get(items[i], "sz", 0) * Get(items[i], price_key, 0)])
    IN  [total_size |-> total_size,
         avg_price |-> IF total_size > 0 THEN Quotient(total_volume, total_size)
                       ELSE <<0, 1>>,
         total_volume |-> total_volume]

\* get_aggregated raises: float() is handed a size or a price of a buffered
\* record that is no number
AggregationRaises(agg, price_key) ==
    LET B == NonEmptyBuckets(agg.buckets)
    IN  \E i \in DOMAIN B : \E j \in DOMAIN B[i].items :
           \/ Get(B[i].items[j], "sz", 0) = NotANumber
           \/ Get(B[i].items[j], price_key, 0) = NotANumber

OrderAggregator_get_aggregated(agg) ==
    LET B == NonEmptyBuckets(agg.buckets)
    IN  [i \in DOMAIN B |->
            LET t == Totals(B[i].items, "limitPx")
            IN  [coin |-> B[i].coin, side |-> B[i].side,
                 total_size |-> t.total_size, avg_price |-> t.avg_price,
                 total_volume |-> t.total_volume,
                 order_count |-> Len(B[i].items),
                 type |-> Get(B[i].items[1], "orderType", None)]]

FillAggregator_get_aggregated(agg) ==
    LET B == NonEmptyBuckets(agg.buckets)
    IN  [i \in DOMAIN B |->
            LET t == Totals(B[i].items, "px")
            IN  [coin |-> B[i].coin, side |-> B[i].side,
                 total_size |-> t.total_size, avg_price |-> t.avg_price,
                 total_volume |-> t.total_volume,
                 fill_count |-> Len(B[i].items)]]

\* OrderAggregator.clear, FillAggregator.clear
clear(agg) == [buckets |-> <<>>, ids |-> {}]

----------------------------------------------------------------------------
(* Alerts *)

\* log_user_action: the record it hands to the user logger, the price and the
\* size as given (the formatter's rounding is not modelled). `about` is
\* history: the records the alert counts, or the status key it reports.
log_user_action(wallet, coin, action, price, size, timestamp, counts, about) ==
    [k \in {"wallet", "coin", "action", "price", "size", "timestamp", "about"}
           \cup DOMAIN counts |->
        CASE k = "wallet" -> wallet
          [] k = "coin" -> coin
          [] k = "action" -> action
          [] k = "price" -> price
          [] k = "size" -> size
          [] k = "timestamp" -> timestamp
          [] k = "about" -> about
          [] OTHER -> counts[k]]

\* int(datetime.now().timestamp()): the wall clock, which the model leaves out
WallClock == [wall |-> TRUE, sec |-> 0]

\* int(timestamp / 1000): milliseconds to seconds
Seconds(timestamp) == [wall |-> FALSE, sec |-> timestamp \div 1000]


----------------------------------------------------------------------------
(* The handlers of HyperliquidWatcher *)

\* the status key f"{order_id}_{current_status}"
StatusKey(order_id, current_status) == order_id \o "_" \o current_status

\* the final statuses with "filled" among them
FinalStatusesWithFilled == {"canceled", "rejected", "marginCanceled", "filled"}

\* the final statuses with "canceled" alone
FinalStatusesCanceledOnly == {"canceled"}

\* the statuses on which check_order_status drops the order from tracking
FinalStatuses == {"canceled", "rejected", "marginCanceled"}

\* the silent statuses without "filled"
SilentStatusesOpenOnly == {"open"}

\* the statuses check_order_status never reports
SilentStatuses == {"open", "filled"}

\* a check that lets an absent result through
IsFalsyNever(status_data) == FALSE

\* `not status_data`
IsFalsy(status_data) == DOMAIN status_data = {}

\* check_order_status once get_order_status has returned status_data
CheckStatusData(st, order_id, address, status_data) ==
    LET current_status == Get(status_data, "status", "unknown")
        last_status ==
            IF HasKey(st.active_orders, order_id)
            THEN Get(Item(st.active_orders, order_id), "last_status", "unknown")
            ELSE "unknown"
        s0 == [st EXCEPT !.lookups =
                  Append(@, [order_id |-> order_id, status_data |-> status_data,
                             last_status |-> last_status])]
    IN  IF IsFalsy(status_data)
        THEN {s0}
        ELSE LET status_key == StatusKey(order_id, current_status)
                 timestamp == Get(status_data, "statusTimestamp", 0)
                 order_data == Get(Get(status_data, "order", EmptyMap), "order", EmptyMap)
                 side == IF Get(order_data, "side", None) = "B" THEN "buy" ELSE "sell"
                 alert == log_user_action(address, Get(order_data, "coin", "UNKNOWN"),
                              side \o "_order_" \o current_status,
                              <<Get(order_data, "limitPx", 0), 1>>,
                              Get(order_data, "sz", 0), Seconds(timestamp),
                              EmptyMap, {<<status_key, timestamp>>})
                 S1 == IF /\ current_status # last_status
                          /\ current_status \notin SilentStatuses
                          /\ is_new_event(s0.logs, "status_changes", status_key, timestamp)
                       THEN log_event([s0 EXCEPT !.emitted = Append(@, alert)],
                                      "status_changes", status_key, timestamp)
                       ELSE {s0}
             IN  {[s EXCEPT !.active_orders =
                      IF current_status \in FinalStatuses
                      THEN PopItem(@, order_id)
                      ELSE SetItem(@, order_id, [address |-> address,
                                                 last_status |-> current_status])] :
                    s \in S1}

check_order_status(st, order_id, address) ==
    UNION {CheckStatusData(st, order_id, address, status_data) :
             status_data \in get_order_status(address, order_id)}

\* the check of a record with the timestamp left out
IsInvalidNoId(event_id, timestamp) == event_id = ""

\* `if not order_id or not timestamp`, `if not fill_id or not timestamp`:
\* the record is logged as invalid and left out
IsInvalid(event_id, timestamp) == event_id = "" \/ timestamp = 0

\* the body of the loop over orders in process_orders. `raised` is the
\* exception on its way to the `except Exception` of the handler: what
\* follows in the try block is not executed.
ProcessOrder(st, address, order) ==
    LET order_id == StrGet(order, "oid", "")
        timestamp == Get(order, "timestamp", 0)
    IN  IF st.raised
        THEN {st}
        ELSE IF ~IsObject(order)
        THEN {[st EXCEPT !.raised = TRUE]}
        ELSE IF IsInvalid(order_id, timestamp)
        THEN {st}
        ELSE IF is_new_event(st.logs, "orders", order_id, timestamp)
        THEN {[s EXCEPT !.active_orders =
                  SetItem(@, order_id, [address |-> address, last_status |-> "open"])] :
                s \in log_event([st EXCEPT !.order_aggregator = add_order(@, order)],
                                "orders", order_id, timestamp)}
        ELSE {st}

RECURSIVE OrdersLoop(_, _, _, _)
OrdersLoop(S, address, orders, i) ==
    IF i > Len(orders) THEN S
    ELSE OrdersLoop(UNION {ProcessOrder(s, address, orders[i]) : s \in S},
                    address, orders, i + 1)

\* current_order_ids once the loop over orders has ended
current_order_ids(orders) ==
    {StrGet(orders[i], "oid", "") :
        i \in {j \in DOMAIN orders : ~IsInvalid(StrGet(orders[j], "oid", ""),
                                                Get(orders[j], "timestamp", 0))}}

\* the records an alert on the bucket counts, as <<identifier, timestamp>>
Counted(items, id_key, ts_key) ==
    {<<StrGet(items[i], id_key, None), Get(items[i], ts_key, 0)>> : i \in DOMAIN items}

\* process_orders from get_aggregated to clear
FlushOrders(st, address) ==
    LET agg_orders == OrderAggregator_get_aggregated(st.order_aggregator)
        B == NonEmptyBuckets(st.order_aggregator.buckets)
    IN  IF st.raised
        THEN st
        ELSE IF AggregationRaises(st.order_aggregator, "limitPx")
        THEN [st EXCEPT !.raised = TRUE]
        ELSE IF agg_orders # <<>>
        THEN [st EXCEPT
                !.emitted = @ \o [i \in DOMAIN agg_orders |->
                    log_user_action(address, agg_orders[i].coin,
                        "aggregated_" \o agg_orders[i].side \o "_orders",
                        agg_orders[i].avg_price, agg_orders[i].total_size, WallClock,
                        [order_count |-> agg_orders[i].order_count,
                         total_volume |-> agg_orders[i].total_volume],
                        Counted(B[i].items, "oid", "timestamp"))],
                !.order_aggregator = clear(@)]
        ELSE st

\* the test without the look at the listing
IsVanishedUnlisted(order_id, entry, current, address) == entry.address = address

\* the test without the look at the owner
IsVanishedAnyOwner(order_id, entry, current, address) == order_id \notin current

\* the test of process_orders on a tracked order: no longer listed, and this
\* address's
IsVanished(order_id, entry, current, address) ==
    order_id \notin current /\ entry.address = address

\* the loop of process_orders over list(self.active_orders.keys())
RECURSIVE VanishedLoop(_, _, _, _, _)
VanishedLoop(S, keys, address, current, i) ==
    IF i > Len(keys) THEN S
    ELSE VanishedLoop(
            UNION {IF /\ ~s.raised
                      /\ IsVanished(keys[i], Item(s.active_orders, keys[i]), current,
                                    address)
                   THEN check_order_status(s, keys[i], address)
                   ELSE {s} : s \in S},
            keys, address, current, i + 1)

\* a handler whose `except Exception` is missing: the exception leaves it
ExceptReraised(st) == st

\* `except Exception as e: self.logger.error(..)` at the end of process_orders
\* and of process_fills: the exception ends there, an error is logged
Except(st) ==
    IF st.raised THEN [st EXCEPT !.raised = FALSE, !.error = TRUE] ELSE st

process_orders(st, address, orders) ==
    {Except(s) :
       s \in UNION {VanishedLoop({FlushOrders(s, address)}, Keys(s.active_orders),
                                 address, current_order_ids(orders), 1) :
                      s \in OrdersLoop({st}, address, orders, 1)}}

\* the body of the loop over fills in process_fills
ProcessFill(st, address, fill) ==
    LET fill_id == StrGet(fill, "tid", "")
        timestamp == Get(fill, "time", 0)
    IN  IF st.raised
        THEN {st}
        ELSE IF ~IsObject(fill)
        THEN {[st EXCEPT !.raised = TRUE]}
        ELSE IF IsInvalid(fill_id, timestamp)
        THEN {st}
        ELSE IF is_new_event(st.logs, "fills", fill_id, timestamp)
        THEN log_event([st EXCEPT !.fill_aggregator = add_fill(@, fill)],
                       "fills", fill_id, timestamp)
        ELSE {st}

RECURSIVE FillsLoop(_, _, _, _)
FillsLoop(S, address, fills, i) ==
    IF i > Len(fills) THEN S
    ELSE FillsLoop(UNION {ProcessFill(s, address, fills[i]) : s \in S},
                   address, fills, i + 1)

\* process_fills from get_aggregated to clear
FlushFills(st, address) ==
    LET agg_fills == FillAggregator_get_aggregated(st.fill_aggregator)
        B == NonEmptyBuckets(st.fill_aggregator.buckets)
    IN  IF st.raised
        THEN st
        ELSE IF AggregationRaises(st.fill_aggregator, "px")
        THEN [st EXCEPT !.raised = TRUE]
        ELSE IF agg_fills # <<>>
        THEN [st EXCEPT
                !.emitted = @ \o [i \in DOMAIN agg_fills |->
                    log_user_action(address, agg_fills[i].coin,
                        "aggregated_" \o agg_fills[i].side \o "_fills",
                        agg_fills[i].avg_price, agg_fills[i].total_size, WallClock,
                        [fill_count |-> agg_fills[i].fill_count,
                         total_volume |-> agg_fills[i].total_volume],
                        Counted(B[i].items, "tid", "time"))],
                !.fill_aggregator = clear(@)]
        ELSE st

process_fills(st, address, fills) ==
    {Except(FlushFills(s, address)) : s \in FillsLoop({st}, address, fills, 1)}

\* the loop of watch over list(self.active_orders.items())
RECURSIVE StatusLoop(_, _, _, _)
StatusLoop(S, items, address, i) ==
    IF i > Len(items) THEN S
    ELSE StatusLoop(
            UNION {IF items[i].value.address = address
                   THEN check_order_status(s, items[i].key, address)
                   ELSE {s} : s \in S},
            items, address, i + 1)

----------------------------------------------------------------------------
(* The process: HyperliquidWatcher.__init__ and the watch loop *)

NoListing == [a \in Range(addresses) |-> <<>>]

NoStep == [op |-> "start", address |-> None]

NoCall == [fn |-> None]

\* what a step finds: the ledger, the tracker, and the batch fetched for the
\* address the time before
Found(batch) ==
    [logs |-> logs, active_orders |-> active_orders, durable |-> durable,
     batch |-> batch, disk |-> disk, order_aggregator |-> order_aggregator,
     fill_aggregator |-> fill_aggregator]

Init ==
    /\ disk = MissingFile
    /\ logs = load_logs(disk)
    /\ active_orders = <<>>
    /\ order_aggregator = NewAggregator
    /\ fill_aggregator = NewAggregator
    /\ pc = "orders"
    /\ idx = 1
    /\ cycle = 0
    /\ restarts = 0
    /\ last = NoStep
    /\ listing = NoListing
    /\ fillListing = NoListing
    /\ emitted = <<>>
    /\ lookups = <<>>
    /\ writes = <<>>
    /\ durable = [orders |-> EmptyMap, fills |-> EmptyMap, status_changes |-> EmptyMap]
    /\ call = NoCall
    /\ env \in Exchanges
    /\ before = Found(<<>>)

\* the watcher's fields as a handler finds them; the step's history starts empty
Self ==
    [logs |-> logs, disk |-> disk, active_orders |-> active_orders,
     order_aggregator |-> order_aggregator, fill_aggregator |-> fill_aggregator,
     emitted |-> <<>>, lookups |-> <<>>, writes |-> <<>>, durable |-> durable,
     saved |-> None, raised |-> FALSE, error |-> FALSE]

Becomes(st) ==
    /\ logs' = st.logs
    /\ disk' = st.disk
    /\ active_orders' = st.active_orders
    /\ order_aggregator' = st.order_aggregator
    /\ fill_aggregator' = st.fill_aggregator
    /\ emitted' = st.emitted
    /\ lookups' = st.lookups
    /\ writes' = st.writes
    /\ durable' = st.durable

\* watch: get_open_orders and process_orders for the address. An exception
\* that left the handler would reach the `except Exception` of watch, which
\* logs it and goes to the sleep, leaving the rest of the addresses out.
WatchOrders ==
    /\ pc = "orders"
    /\ LET address == addresses[idx]
       IN  \E orders \in get_open_orders(address) :
             \E st \in process_orders(Self, address, orders) :
                /\ Becomes(st)
                /\ listing' = [listing EXCEPT ![address] = orders]
                /\ last' = [op |-> "orders", address |-> address,
                            error |-> st.error]
                /\ before' = Found(listing[address])
                /\ pc' = IF st.raised THEN "sleep" ELSE "fills"
    /\ UNCHANGED <<idx, cycle, restarts, fillListing, call, env>>

\* watch: get_fills and process_fills for the address
WatchFills ==
    /\ pc = "fills"
    /\ LET address == addresses[idx]
       IN  \E fills \in get_fills(address) :
             \E st \in process_fills(Self, address, fills) :
                /\ Becomes(st)
                /\ fillListing' = [fillListing EXCEPT ![address] = fills]
                /\ last' = [op |-> "fills", address |-> address,
                            error |-> st.error]
                /\ before' = Found(fillListing[address])
                /\ pc' = IF st.raised THEN "sleep" ELSE "status"
    /\ UNCHANGED <<idx, cycle, restarts, listing, call, env>>

\* watch: check_order_status for every active order of the address, then the
\* next address, or the sleep after the last one
WatchStatus ==
    /\ pc = "status"
    /\ LET address == addresses[idx]
       IN  \E st \in StatusLoop({Self}, active_orders, address, 1) :
                /\ Becomes(st)
                /\ last' = [op |-> "status", address |-> address,
                            error |-> st.error]
                /\ before' = Found(<<>>)
    /\ IF idx < Len(addresses)
       THEN pc' = "orders" /\ idx' = idx + 1
       ELSE pc' = "sleep" /\ idx' = idx
    /\ UNCHANGED <<cycle, restarts, listing, fillListing, call, env>>

\* watch: asyncio.sleep(self.interval), then the next cycle
WatchSleep ==
    /\ pc = "sleep"
    /\ cycle < MaxCycles
    /\ cycle' = cycle + 1
    /\ pc' = "orders"
    /\ idx' = 1
    /\ last' = [op |-> "sleep", address |-> None]
    /\ before' = Found(<<>>)
    /\ emitted' = <<>>
    /\ lookups' = <<>>
    /\ writes' = <<>>
    /\ UNCHANGED <<logs, disk, active_orders, order_aggregator, fill_aggregator,
                   restarts, listing, fillListing, durable, call, env>>

\* the process ends between two steps and is started again: __init__
Restart ==
    /\ env.restarts
    /\ restarts < MaxRestarts
    /\ restarts' = restarts + 1
    /\ logs' = load_logs(disk)
    /\ active_orders' = <<>>
    /\ order_aggregator' = NewAggregator
    /\ fill_aggregator' = NewAggregator
    /\ pc' = "orders"
    /\ idx' = 1
    /\ cycle' = 0
    /\ last' = [op |-> "restart", address |-> None]
    /\ before' = Found(<<>>)
    /\ listing' = NoListing
    /\ fillListing' = NoListing
    /\ emitted' = <<>>
    /\ lookups' = <<>>
    /\ writes' = <<>>
    /\ UNCHANGED <<disk, durable, call, env>>

\* the sleeps since self.last_aggregation_flush was set: __init__ sets it to
\* the time of construction and no other line assigns it. A step takes no
\* time in the model, so before the first sleep of a process no time has
\* passed since then and self.aggregation_window has not elapsed.
SleepsSinceFlush == cycle

\* the process is stopped between two steps: a KeyboardInterrupt, or the
\* cancellation of the task that asyncio.run makes of it, reaches watch at one
\* of its awaits, which `except Exception` does not catch; main ends. `last`
\* keeps where the loop was.
Interrupt ==
    /\ env.restarts
    /\ pc \in {"orders", "fills", "status", "sleep"}
    /\ pc' = "stopped"
    /\ last' = [op |-> "interrupt", address |-> None, at |-> pc, place |-> idx]
    /\ before' = Found(<<>>)
    /\ emitted' = <<>>
    /\ lookups' = <<>>
    /\ writes' = <<>>
    /\ UNCHANGED <<logs, disk, active_orders, order_aggregator, fill_aggregator, idx,
                   cycle, restarts, listing, fillListing, durable, call, env>>

\* the process is stopped inside save_logs, between open(.., "w") and the end
\* of json.dump: a KeyboardInterrupt raised in the synchronous code, or the
\* process killed. The write is that of the first new record of the listing.
InterruptedWrite ==
    /\ env.restarts
    /\ pc \in {"orders", "fills"}
    /\ LET address == addresses[idx]
           event_type == pc
           records == IF pc = "orders" THEN env.orders[address] ELSE env.fills[address]
       IN  \E record \in records :
             LET event_id == IF pc = "orders" THEN StrGet(record, "oid", "")
                             ELSE StrGet(record, "tid", "")
                 timestamp == IF pc = "orders" THEN Get(record, "timestamp", 0)
                              ELSE Get(record, "time", 0)
             IN  /\ IsObject(record) /\ event_id # "" /\ timestamp # 0
                 /\ is_new_event(logs, event_type, event_id, timestamp)
                 /\ logs' = [logs EXCEPT ![event_type].map = Put(@, event_id, timestamp)]
                 /\ IF pc = "orders"
                    THEN /\ order_aggregator' = add_order(order_aggregator, record)
                         /\ listing' = [listing EXCEPT ![address] = <<record>>]
                         /\ UNCHANGED <<fill_aggregator, fillListing>>
                    ELSE /\ fill_aggregator' = add_fill(fill_aggregator, record)
                         /\ fillListing' = [fillListing EXCEPT ![address] = <<record>>]
                         /\ UNCHANGED <<order_aggregator, listing>>
                 /\ writes' = <<[event_type |-> event_type, event_id |-> event_id,
                                 timestamp |-> timestamp, outcome |-> "interrupted"]>>
                 /\ durable' = [durable EXCEPT ![event_type] =
                                   [k \in DOMAIN @ \ {event_id} |-> @[k]]]
                 /\ last' = [op |-> "interrupt", address |-> address, at |-> "write",
                             place |-> idx]
    /\ disk' = PartialFile
    /\ pc' = "stopped"
    /\ before' = Found(<<>>)
    /\ emitted' = <<>>
    /\ lookups' = <<>>
    /\ UNCHANGED <<active_orders, idx, cycle, restarts, call, env>>

Next ==
    \/ WatchOrders \/ WatchFills \/ WatchStatus \/ WatchSleep \/ Restart
    \/ Interrupt \/ InterruptedWrite

Spec == Init /\ [][Next]_vars

----------------------------------------------------------------------------
(* watch as the loop without end that it is: `while True`, and no signal *)

\* the exchanges of the loop without end: listings that processing raises on,
\* lookups that fail, writes of the ledger file that fail
LiveExchanges == {BadOrders, BadSizes, BadFills}

InitLive ==
    /\ disk = MissingFile
    /\ logs = load_logs(disk)
    /\ active_orders = <<>>
    /\ order_aggregator = NewAggregator
    /\ fill_aggregator = NewAggregator
    /\ pc = "orders"
    /\ idx = 1
    /\ cycle = 0
    /\ restarts = 0
    /\ last = NoStep
    /\ listing = NoListing
    /\ fillListing = NoListing
    /\ emitted = <<>>
    /\ lookups = <<>>
    /\ writes = <<>>
    /\ durable = [orders |-> EmptyMap, fills |-> EmptyMap, status_changes |-> EmptyMap]
    /\ call = NoCall
    /\ env \in LiveExchanges
    /\ before = Found(<<>>)

\* watch: asyncio.sleep(self.interval), then the next cycle, any number of
\* times; the sleeps after the MaxCycles-th are not counted
WatchSleepOn ==
    /\ pc = "sleep"
    /\ cycle' = IF cycle < MaxCycles THEN cycle + 1 ELSE cycle
    /\ pc' = "orders"
    /\ idx' = 1
    /\ last' = [op |-> "sleep", address |-> None]
    /\ before' = Found(<<>>)
    /\ emitted' = <<>>
    /\ lookups' = <<>>
    /\ writes' = <<>>
    /\ UNCHANGED <<logs, disk, active_orders, order_aggregator, fill_aggregator,
                   restarts, listing, fillListing, durable, call, env>>

NextLive == WatchOrders \/ WatchFills \/ WatchStatus \/ WatchSleepOn

\* the event loop runs the one task of the process: a step that can be taken
\* is taken, every await of watch returns or raises
SpecLive == InitLive /\ [][NextLive]_vars /\ WF_vars(NextLive)

----------------------------------------------------------------------------
(* is_new_event on its own: any ledger load_logs can return, any event *)

\* what a namespace of a loaded ledger can hold: a dict, or, from a file not
\* written by save_logs, a list, a string, null or a number
NamespaceValues ==
    {Dict(EmptyMap), Dict(Put(EmptyMap, "1", 1)), Dict(Put(EmptyMap, "1", MaxTs)),
     [kind |-> "list", map |-> EmptyMap], [kind |-> "list", map |-> Put(EmptyMap, "1", 0)],
     [kind |-> "str", map |-> Put(EmptyMap, "1", 0)],
     [kind |-> "null", map |-> EmptyMap], [kind |-> "num", map |-> EmptyMap]}

InitIsNew ==
    /\ disk \in {ObjectFile(l) : l \in [orders : NamespaceValues, fills : NamespaceValues,
                                       status_changes : NamespaceValues]}
    /\ logs = load_logs(disk)
    /\ active_orders = <<>>
    /\ order_aggregator = NewAggregator
    /\ fill_aggregator = NewAggregator
    /\ pc = "orders"
    /\ idx = 1
    /\ cycle = 0
    /\ restarts = 0
    /\ last = NoStep
    /\ listing = NoListing
    /\ fillListing = NoListing
    /\ emitted = <<>>
    /\ lookups = <<>>
    /\ writes = <<>>
    /\ durable = [orders |-> EmptyMap, fills |-> EmptyMap, status_changes |-> EmptyMap]
    /\ call = NoCall
    /\ env = RepeatedOrders
    /\ before = Found(<<>>)

IsNewEventCall ==
    /\ \E event_type \in {"orders", "fills", "status_changes"}, event_id \in {"1", "2"},
          timestamp \in Timestamps :
            call' = [fn |-> "is_new_event", event_type |-> event_type,
                     event_id |-> event_id, timestamp |-> timestamp,
                     result |-> is_new_event(logs, event_type, event_id, timestamp)]
    /\ UNCHANGED <<logs, disk, active_orders, order_aggregator, fill_aggregator, pc,
                   idx, cycle, restarts, last, before, listing, fillListing, emitted,
                   lookups, writes, durable, env>>

NextIsNew == IsNewEventCall

SpecIsNew == InitIsNew /\ [][NextIsNew]_vars

----------------------------------------------------------------------------
(* The aggregators on their own: any records, added, summarised, cleared *)

\* the records handed to an aggregator: two of one bucket, one of another,
\* one of size 0 and one with a side code that is neither "B" nor "A"
AggregatorOrders ==
    {Order(1, 1), Order(2, 1), Order(3, 1), [Order(3, 2) EXCEPT !.sz = 0],
     [Order(1, 2) EXCEPT !.oid = 4, !.sz = 0, !.side = "S"]}

AggregatorFills ==
    {Fill(11, 1), Fill(12, 1), [Fill(13, 1) EXCEPT !.sz = 0],
     [Fill(11, 2) EXCEPT !.tid = 14, !.side = "S"]}

\* an aggregator whose defaultdict holds a list that nothing was appended to
EmptyBucket ==
    [buckets |-> <<[key |-> "BTC", value |-> <<[key |-> "buy", value |-> <<>>]>>]>>,
     ids |-> {}]

InitAggregate ==
    /\ disk = MissingFile
    /\ logs = load_logs(disk)
    /\ active_orders = <<>>
    /\ order_aggregator \in {NewAggregator, EmptyBucket}
    /\ fill_aggregator \in {NewAggregator, EmptyBucket}
    /\ pc = "orders"
    /\ idx = 1
    /\ cycle = 0
    /\ restarts = 0
    /\ last = NoStep
    /\ listing = NoListing
    /\ fillListing = NoListing
    /\ emitted = <<>>
    /\ lookups = <<>>
    /\ writes = <<>>
    /\ durable = [orders |-> EmptyMap, fills |-> EmptyMap, status_changes |-> EmptyMap]
    /\ call = NoCall
    /\ env = RepeatedOrders
    /\ before = Found(<<>>)

\* the variables no call on an aggregator touches
NotAggregators ==
    <<logs, disk, active_orders, pc, idx, cycle, restarts, last, before, listing,
      fillListing, emitted, lookups, writes, durable, env>>

AddOrderCall ==
    /\ Cardinality(order_aggregator.ids) < MaxAdds
    /\ \E order \in AggregatorOrders :
          /\ order_aggregator' = add_order(order_aggregator, order)
          /\ call' = [fn |-> "add", kind |-> "order", agg |-> order_aggregator,
                      record |-> order, result |-> order_aggregator']
    /\ UNCHANGED <<fill_aggregator, NotAggregators>>

AddFillCall ==
    /\ Cardinality(fill_aggregator.ids) < MaxAdds
    /\ \E fill \in AggregatorFills :
          /\ fill_aggregator' = add_fill(fill_aggregator, fill)
          /\ call' = [fn |-> "add", kind |-> "fill", agg |-> fill_aggregator,
                      record |-> fill, result |-> fill_aggregator']
    /\ UNCHANGED <<order_aggregator, NotAggregators>>

OrdersAggregatedCall ==
    /\ call' = [fn |-> "get_aggregated", kind |-> "order", agg |-> order_aggregator,
                result |-> OrderAggregator_get_aggregated(order_aggregator)]
    /\ UNCHANGED <<order_aggregator, fill_aggregator, NotAggregators>>

FillsAggregatedCall ==
    /\ call' = [fn |-> "get_aggregated", kind |-> "fill", agg |-> fill_aggregator,
                result |-> FillAggregator_get_aggregated(fill_aggregator)]
    /\ UNCHANGED <<order_aggregator, fill_aggregator, NotAggregators>>

ClearOrdersCall ==
    /\ order_aggregator' = clear(order_aggregator)
    /\ call' = [fn |-> "clear", kind |-> "order", agg |-> order_aggregator,
                result |-> order_aggregator']
    /\ UNCHANGED <<fill_aggregator, NotAggregators>>

ClearFillsCall ==
    /\ fill_aggregator' = clear(fill_aggregator)
    /\ call' = [fn |-> "clear", kind |-> "fill", agg |-> fill_aggregator,
                result |-> fill_aggregator']
    /\ UNCHANGED <<order_aggregator, NotAggregators>>

NextAggregate ==
    \/ AddOrderCall \/ AddFillCall \/ OrdersAggregatedCall \/ FillsAggregatedCall
    \/ ClearOrdersCall \/ ClearFillsCall

SpecAggregate == InitAggregate /\ [][NextAggregate]_vars

----------------------------------------------------------------------------
(* load_logs on its own: any file, loaded at construction and again *)

\* the values a key of a stored object can hold
StoredValues ==
    {Dict(EmptyMap), Dict(Put(EmptyMap, "1", 1)), [kind |-> "null", map |-> EmptyMap]}

\* the files load_logs can find: none, one that is not JSON, one whose value
\* is not an object, one that cannot be read, and objects with any of the
\* three namespaces and another key, present or not
LedgerFiles ==
    {MissingFile, PartialFile, ValueFile, UnreadableFile} \cup
    {ObjectFile(data) :
        data \in UNION {[K -> StoredValues] :
                          K \in SUBSET {"orders", "fills", "status_changes", "alerts"}}}

InitLoad ==
    /\ disk \in LedgerFiles
    /\ logs = load_logs(disk)
    /\ active_orders = <<>>
    /\ order_aggregator = NewAggregator
    /\ fill_aggregator = NewAggregator
    /\ pc = "orders"
    /\ idx = 1
    /\ cycle = 0
    /\ restarts = 0
    /\ last = NoStep
    /\ listing = NoListing
    /\ fillListing = NoListing
    /\ emitted = <<>>
    /\ lookups = <<>>
    /\ writes = <<>>
    /\ durable = [orders |-> EmptyMap, fills |-> EmptyMap, status_changes |-> EmptyMap]
    /\ call = NoCall
    /\ env = RepeatedOrders
    /\ before = [logs |-> NewLedger, active_orders |-> <<>>, durable |-> durable,
                 batch |-> <<>>, disk |-> disk, order_aggregator |-> order_aggregator,
                 fill_aggregator |-> fill_aggregator]

\* __init__ of a new process: the file is loaded again
LoadLogsCall ==
    /\ restarts < MaxRestarts
    /\ restarts' = restarts + 1
    /\ logs' = load_logs(disk)
    /\ call' = [fn |-> "load_logs", file |-> disk, result |-> logs']
    /\ UNCHANGED <<disk, active_orders, order_aggregator, fill_aggregator, pc, idx,
                   cycle, last, before, listing, fillListing, emitted, lookups,
                   writes, durable, env>>

NextLoad == LoadLogsCall

SpecLoad == InitLoad /\ [][NextLoad]_vars

----------------------------------------------------------------------------
(* What the claims speak of *)

\* <<identifier, timestamp>> of every record of a batch of orders or fills
\* <<identifier, timestamp>> of the records of a listing that have both
RecordKeys(records, id_key, timestamp_key) ==
    LET whole == SelectSeq(records, LAMBDA r : {id_key, timestamp_key} \subseteq DOMAIN r)
    IN  [i \in DOMAIN whole |-> <<ToString(whole[i][id_key]), whole[i][timestamp_key]>>]

OrderKeys(orders) == RecordKeys(orders, "oid", "timestamp")

FillKeys(fills) == RecordKeys(fills, "tid", "time")

\* the batch the last step processed, and the one before it for the address
BatchKeys ==
    CASE last.op = "orders" -> OrderKeys(listing[last.address])
      [] last.op = "fills" -> FillKeys(fillListing[last.address])
      [] OTHER -> <<>>

PreviousKeys ==
    CASE last.op = "orders" -> OrderKeys(before.batch)
      [] last.op = "fills" -> FillKeys(before.batch)
      [] OTHER -> <<>>

Namespace == IF last.op = "fills" THEN "fills" ELSE "orders"

\* the aggregate alerts of the last step that count record r
AlertsCounting(r) ==
    {i \in DOMAIN emitted : "total_volume" \in DOMAIN emitted[i] /\ r \in emitted[i].about}

\* the batch returns r's identifier with r's timestamp only
Unmixed(keys, r) == \A j \in DOMAIN keys : keys[j][1] = r[1] => keys[j][2] = r[2]

\* the ledger the step found holds no entry r
NewBefore(r) ==
    \/ r[1] \notin DOMAIN before.logs[Namespace].map
    \/ before.logs[Namespace].map[r[1]] # r[2]

\* the earlier records of the batch with the identifier of record i
Prior(keys, i) == {j \in 1..(i - 1) : keys[j][1] = keys[i][1]}

\* the timestamp the ledger holds for record i's identifier when the loop
\* reaches record i (0: none)
RecordedAt(keys, i) ==
    IF Prior(keys, i) # {}
    THEN keys[CHOOSE j \in Prior(keys, i) : \A k \in Prior(keys, i) : k <= j][2]
    ELSE Get(before.logs[Namespace].map, keys[i][1], 0)

Retimed(keys, i) == RecordedAt(keys, i) \notin {0, keys[i][2]}

AddedBefore(keys, i) == \E j \in Prior(keys, i) : RecordedAt(keys, j) # keys[j][2]

TrackedBefore(order_id) == HasKey(before.active_orders, order_id)

Tracked(order_id) == HasKey(active_orders, order_id)

LookedUp == {lookups[k].order_id : k \in DOMAIN lookups}

\* the status alerts and the status_changes writes of the last step on an order
StatusKeysOf(order_id) == {StatusKey(order_id, s) : s \in Statuses \cup {"unknown"}}

StatusAlertsOn(order_id) ==
    {i \in DOMAIN emitted : \E r \in emitted[i].about : r[1] \in StatusKeysOf(order_id)}

StatusWritesOn(order_id) ==
    {i \in DOMAIN writes : /\ writes[i].event_type = "status_changes"
                           /\ writes[i].event_id \in StatusKeysOf(order_id)}

----------------------------------------------------------------------------
(* The claims *)

C2_IsNewEvent ==
    call.fn = "is_new_event" =>
        LET events == logs[call.event_type]
        IN  call.result =
              IF events.kind = "dict"
              THEN \/ call.event_id \notin DOMAIN events.map
                   \/ events.map[call.event_id] # call.timestamp
              ELSE TRUE

\* C2 witness: a lookup in a namespace that is no dict answers "new".
C2_Witness ==
    /\ call.fn = "is_new_event"
    /\ logs[call.event_type].kind \in {"list", "null"}
    /\ call.result

C4_RestartDoesNotReAlert ==
    (last.op \in {"orders", "fills"} /\ restarts > 0) =>
        \A i \in DOMAIN BatchKeys :
            LET r == BatchKeys[i]
            IN  (Get(before.durable[Namespace], r[1], 0) = r[2] /\ Unmixed(BatchKeys, r))
                  => AlertsCounting(r) = {}

\* C5. The first poll of an address after a restart tracks every order of the
\* listing as open.
C5_RestartReconstructsTracking ==
    (last.op = "orders" /\ restarts > 0 /\ cycle = 0) =>
        \A order_id \in current_order_ids(listing[last.address]) :
            /\ Tracked(order_id)
            /\ Item(active_orders, order_id).last_status = "open"

C7_SilentStatuses ==
    \A k \in DOMAIN lookups :
        LET e == lookups[k]
        IN  (/\ ~IsFalsy(e.status_data)
             /\ \/ e.status_data.status = e.last_status
                \/ e.status_data.status \in {"open", "filled"})
              => /\ StatusAlertsOn(e.order_id) = {}
                 /\ StatusWritesOn(e.order_id) = {}

\* C7 witness: an order last known as triggered is found triggered again, with
\* a status timestamp the ledger does not hold, and no alert is emitted.
C7_Witness ==
    \E k \in DOMAIN lookups :
        LET e == lookups[k]
        IN  /\ e.status_data # EmptyMap
            /\ e.status_data.status = "triggered"
            /\ e.last_status = "triggered"
            /\ is_new_event(before.logs, "status_changes",
                            StatusKey(e.order_id, "triggered"),
                            e.status_data.statusTimestamp)
            /\ emitted = <<>>

C10_FailedLookupIsNoOp ==
    /\ \A k \in DOMAIN lookups :
          LET e == lookups[k]
          IN  e.status_data = EmptyMap =>
                /\ Tracked(e.order_id) <=> TrackedBefore(e.order_id)
                /\ Tracked(e.order_id) =>
                      Item(active_orders, e.order_id) = Item(before.active_orders, e.order_id)
                /\ StatusAlertsOn(e.order_id) = {}
                /\ StatusWritesOn(e.order_id) = {}
    /\ last.op = "status" =>
          \A k \in Range(Keys(before.active_orders)) :
              Item(before.active_orders, k).address = last.address => k \in LookedUp

\* C10 witness: a lookup returns nothing in one cycle, the order stays tracked,
\* and the next cycle's loop looks it up again.
C10_Witness ==
    /\ last.op = "status"
    /\ cycle > 0
    /\ \E k \in DOMAIN lookups :
          /\ lookups[k].status_data = EmptyMap
          /\ Tracked(lookups[k].order_id)

\* the alerts of the last step that report status key `key` at `timestamp`
StatusAlertsAbout(key, timestamp) ==
    {i \in DOMAIN emitted : /\ "total_volume" \notin DOMAIN emitted[i]
                            /\ <<key, timestamp>> \in emitted[i].about}

AggregateAlerts == {i \in DOMAIN emitted : "total_volume" \in DOMAIN emitted[i]}

\* C12. Aggregate alerts are emitted only once the aggregation window has
\* elapsed since the last flush: before that no aggregate alert is emitted,
\* and the orders and fills a step has found new are in the aggregators when
\* the step ends.
C12_FlushGatedByTimer ==
    SleepsSinceFlush = 0 =>
        /\ AggregateAlerts = {}
        /\ \A w \in DOMAIN writes :
              /\ writes[w].event_type = "orders" =>
                    writes[w].event_id \in order_aggregator.ids
              /\ writes[w].event_type = "fills" =>
                    writes[w].event_id \in fill_aggregator.ids

\* the place of an address in self.addresses
PlaceOf(address) == CHOOSE i \in DOMAIN addresses : addresses[i] = address

\* C13. Within one address's cycle the orders are processed, then the fills,
\* and no aggregate alert is flushed before the fills have been processed;
\* the addresses are visited in the order of the configured list, one
\* finished before the next is started.
C13_Ordering ==
    /\ last.op = "orders" =>
          /\ pc = "fills" /\ addresses[idx] = last.address
          /\ AggregateAlerts = {}
    /\ last.op = "fills" => pc = "status" /\ addresses[idx] = last.address
    /\ last.op = "status" =>
          IF PlaceOf(last.address) < Len(addresses)
          THEN pc = "orders" /\ idx = PlaceOf(last.address) + 1
          ELSE pc = "sleep"
    /\ last.op = "sleep" => pc = "orders" /\ idx = 1

\* the records an aggregator holds for an instrument and a side
BucketItems(agg, coin, side) ==
    IF HasKey(agg.buckets, coin) /\ HasKey(Item(agg.buckets, coin), side)
    THEN Item(Item(agg.buckets, coin), side)
    ELSE <<>>

Instruments == {"BTC", "ETH"}

Sides == {"buy", "sell"}

RECURSIVE SizeSum(_)
SizeSum(items) ==
    IF items = <<>> THEN 0 ELSE Head(items).sz + SizeSum(Tail(items))

RECURSIVE VolumeSum(_, _)
VolumeSum(items, price_key) ==
    IF items = <<>> THEN 0
    ELSE Head(items).sz * Head(items)[price_key] + VolumeSum(Tail(items), price_key)

\* the entries of a result of get_aggregated for an instrument and a side
EntriesFor(result, coin, side) ==
    {i \in DOMAIN result : result[i].coin = coin /\ result[i].side = side}

\* C14. get_aggregated returns one entry for every bucket that holds records
\* and none for any other, with the sum of the sizes, the sum of size times
\* price, the number of records, and the total volume divided by the total
\* size for the average price, or 0 when the total size is 0.
C14_Aggregation ==
    call.fn = "get_aggregated" =>
        LET price_key == IF call.kind = "order" THEN "limitPx" ELSE "px"
            count_key == IF call.kind = "order" THEN "order_count" ELSE "fill_count"
        IN  \A coin \in Instruments, side \in Sides :
              LET items == BucketItems(call.agg, coin, side)
                  entries == EntriesFor(call.result, coin, side)
              IN  IF items = <<>>
                  THEN entries = {}
                  ELSE /\ Cardinality(entries) = 1
                       /\ \A i \in entries :
                            LET entry == call.result[i]
                            IN  /\ entry.total_size = SizeSum(items)
                                /\ entry.total_volume = VolumeSum(items, price_key)
                                /\ entry[count_key] = Len(items)
                                /\ IF SizeSum(items) = 0
                                   THEN entry.avg_price = <<0, 1>>
                                   ELSE /\ entry.avg_price[2] > 0
                                        /\ entry.avg_price[1] * SizeSum(items) =
                                           VolumeSum(items, price_key) * entry.avg_price[2]

\* C14 witness: sizes 1 and 3 at prices 100 and 200 give 4, 700, 175 and 2.
C14_Witness ==
    /\ call.fn = "get_aggregated"
    /\ call.kind = "order"
    /\ \E i \in DOMAIN call.result :
          /\ call.result[i].coin = "BTC" /\ call.result[i].side = "buy"
          /\ call.result[i].total_size = 4
          /\ call.result[i].total_volume = 700
          /\ call.result[i].avg_price = <<175, 1>>
          /\ call.result[i].order_count = 2

\* the number of records an aggregator holds
Buffered(agg) ==
    LET B == NonEmptyBuckets(agg.buckets)
    IN  SizeSum([i \in DOMAIN B |-> [sz |-> Len(B[i].items)]])

\* C15. Adding a record whose identifier the aggregator has seen changes
\* nothing; any other record is appended to the bucket of its instrument and
\* of buy for side code "B", sell for any other, and its identifier is marked
\* seen, every other bucket being left as it was; the number of records held
\* equals the number of identifiers seen; clear leaves both empty.
C15_AddIdempotent ==
    /\ Buffered(order_aggregator) = Cardinality(order_aggregator.ids)
    /\ Buffered(fill_aggregator) = Cardinality(fill_aggregator.ids)
    /\ call.fn = "add" =>
          LET id == ToString(IF call.kind = "order" THEN call.record.oid
                             ELSE call.record.tid)
              to == IF call.record.side = "B" THEN "buy" ELSE "sell"
          IN  IF id \in call.agg.ids
              THEN call.result = call.agg
              ELSE /\ call.result.ids = call.agg.ids \cup {id}
                   /\ \A coin \in Instruments, side \in Sides :
                        BucketItems(call.result, coin, side) =
                            IF coin = call.record.coin /\ side = to
                            THEN Append(BucketItems(call.agg, coin, side), call.record)
                            ELSE BucketItems(call.agg, coin, side)
    /\ call.fn = "clear" =>
          /\ call.result.ids = {}
          /\ \A coin \in Instruments, side \in Sides :
                BucketItems(call.result, coin, side) = <<>>

\* C15 witness: a record is added whose identifier was seen, with another
\* timestamp, and the aggregator is as it was.
C15_Witness ==
    /\ call.fn = "add"
    /\ call.kind = "order"
    /\ ToString(call.record.oid) \in call.agg.ids
    /\ \A coin \in Instruments, side \in Sides :
          \A i \in DOMAIN BucketItems(call.agg, coin, side) :
              BucketItems(call.agg, coin, side)[i] # call.record
    /\ call.result = call.agg

\* C16. load_logs returns, without raising and without writing the file, the
\* ledger of three empty namespaces when there is no file, the file does not
\* parse or its value is not an object, and otherwise what the object holds
\* with every namespace it lacks defaulted to empty.
C16_LoadLogs ==
    /\ IF disk.kind = "object"
       THEN /\ DOMAIN logs = DOMAIN disk.data \cup {"orders", "fills", "status_changes"}
            /\ \A k \in DOMAIN disk.data : logs[k] = disk.data[k]
            /\ \A ns \in {"orders", "fills", "status_changes"} \ DOMAIN disk.data :
                  logs[ns] = [kind |-> "dict", map |-> EmptyMap]
       ELSE logs = [orders |-> [kind |-> "dict", map |-> EmptyMap],
                    fills |-> [kind |-> "dict", map |-> EmptyMap],
                    status_changes |-> [kind |-> "dict", map |-> EmptyMap]]
    /\ call.fn = "load_logs" => disk = call.file /\ logs = call.result

\* C16 witness: a file that holds "not an object" is loaded as the empty
\* ledger and is as it was.
C16_Witness ==
    /\ call.fn = "load_logs"
    /\ disk.kind = "value"
    /\ disk = call.file
    /\ \A ns \in {"orders", "fills", "status_changes"} : logs[ns].map = EmptyMap

\* the ledger after the log_event calls ws[i..] have set their entries
RECURSIVE Applied(_, _, _)
Applied(ledger, ws, i) ==
    IF i > Len(ws) THEN ledger
    ELSE Applied([ledger EXCEPT ![ws[i].event_type].map =
                      [x \in DOMAIN @ \cup {ws[i].event_id} |->
                          IF x = ws[i].event_id THEN ws[i].timestamp ELSE @[x]]],
                 ws, i + 1)

\* C17. The log_event calls of a step set their entries and leave every other
\* entry of every namespace as it was; and when the write of the last call
\* succeeded, the file holds the ledger that is in memory.
C17_WriteThrough ==
    writes # <<>> =>
        /\ logs = Applied(before.logs, writes, 1)
        /\ writes[Len(writes)].outcome = "written" =>
              disk.kind = "object" /\ disk.data = logs

\* C17 witness: a step has recorded an entry, its write succeeded, and the
\* file holds the ledger in memory.
C17_Witness ==
    /\ writes # <<>>
    /\ writes[Len(writes)].outcome = "written"
    /\ logs # before.logs
    /\ disk.kind = "object"
    /\ disk.data = logs

\* the log_event calls of the last step whose write failed
FailedWrites == {i \in DOMAIN writes : writes[i].outcome # "written"}

\* C18. A failed write of the ledger neither stops the step nor rolls back
\* memory: the entry is in the ledger in memory (unless a later call of the
\* step has set it again), the records after it in the batch are processed
\* (the last record of the batch is in the ledger), and when a later write
\* succeeds the file holds every entry of the ledger in memory.
C18_FailedWrite ==
    /\ \A i \in FailedWrites :
          LET w == writes[i]
              later == {j \in DOMAIN writes :
                          /\ j > i
                          /\ writes[j].event_type = w.event_type
                          /\ writes[j].event_id = w.event_id}
          IN  later = {} =>
                 /\ w.event_id \in DOMAIN logs[w.event_type].map
                 /\ logs[w.event_type].map[w.event_id] = w.timestamp
    /\ (FailedWrites # {} /\ last.op \in {"orders", "fills"} /\ BatchKeys # <<>>) =>
          LET r == BatchKeys[Len(BatchKeys)]
          IN  /\ r[1] \in DOMAIN logs[Namespace].map
              /\ logs[Namespace].map[r[1]] = r[2]
    /\ (writes # <<>> /\ writes[Len(writes)].outcome = "written") =>
          /\ disk.kind = "object"
          /\ \A ns \in DOMAIN logs : \A id \in DOMAIN logs[ns].map :
                /\ id \in DOMAIN disk.data[ns].map
                /\ disk.data[ns].map[id] = logs[ns].map[id]

\* C18 witness: the write of an entry has failed, the entry is in memory, and
\* a later write of the same process has succeeded and put it in the file.
C18_Witness ==
    /\ restarts = 0
    /\ writes # <<>>
    /\ writes[Len(writes)].outcome = "written"
    /\ disk.kind = "object"
    /\ \E ns \in DOMAIN logs : \E id \in DOMAIN logs[ns].map :
          /\ Get(durable[ns], id, 0) # logs[ns].map[id]
          /\ id \in DOMAIN disk.data[ns].map
          /\ disk.data[ns].map[id] = logs[ns].map[id]

\* C19. The file holds a complete ledger at all times: the one from before a
\* write or the one from after it, never an empty or partial file.
C19_AtomicWrite == disk.kind \in {"missing", "object"}

\* C20. The watch loop stops only where it checks the shutdown signal, at the
\* top of a cycle or at the sleep, and never inside a write of the ledger.
C20_GracefulShutdown ==
    pc = "stopped" =>
        /\ last.at # "write"
        /\ \/ last.at = "sleep"
           \/ last.at = "orders" /\ last.place = 1


\* C21: whatever the listings, the lookups and the writes of the ledger file
\* give, and whatever processing raises, the loop goes on: it reaches the
\* sleep again and again, and after every sleep it polls the orders of every
\* configured address again.
C21_Liveness ==
    /\ []<>(pc = "sleep")
    /\ []<>(last.op = "orders" /\ last.address = "0xA")
    /\ []<>(last.op = "orders" /\ last.address = "0xB")
    /\ (last.op = "sleep") ~> (last.op = "fills" /\ last.address = "0xB")

\* a cycle begins with an aggregator that an exception of an earlier cycle
\* left filled
C21_Witness ==
    /\ last.op = "sleep"
    /\ pc = "orders"
    /\ order_aggregator # NewAggregator \/ fill_aggregator # NewAggregator


\* an object of a listing that lacks its identifier or its timestamp
Lacking(record, id_key, timestamp_key) ==
    /\ "notdict" \notin DOMAIN record
    /\ id_key \notin DOMAIN record \/ timestamp_key \notin DOMAIN record

\* the batch without those records
Complete(batch, id_key, timestamp_key) ==
    SelectSeq(batch, LAMBDA record : ~Lacking(record, id_key, timestamp_key))

\* the watcher as the last step found it
Started ==
    [logs |-> before.logs, disk |-> before.disk, active_orders |-> before.active_orders,
     order_aggregator |-> before.order_aggregator,
     fill_aggregator |-> before.fill_aggregator, emitted |-> <<>>, lookups |-> <<>>,
     writes |-> <<>>, durable |-> before.durable, saved |-> None, raised |-> FALSE,
     error |-> FALSE]

\* the watcher, its file and what the last step did are those of outcome st
IsOutcome(st) ==
    /\ st.logs = logs
    /\ st.disk = disk
    /\ st.active_orders = active_orders
    /\ st.order_aggregator = order_aggregator
    /\ st.fill_aggregator = fill_aggregator
    /\ st.emitted = emitted
    /\ st.lookups = lookups
    /\ st.writes = writes
    /\ st.durable = durable
    /\ st.error = last.error

\* C22: a record of a batch that lacks its identifier or its timestamp is
\* left out: the step ends as one of the ends of the same step on the batch
\* without these records, in the ledger, the file, the tracker, both
\* aggregators, the alerts, the lookups and the writes; no write of the step
\* and no entry of the ledger or of the tracker is under the empty identifier.
C22_MalformedSkipped ==
    /\ last.op = "orders" =>
          \E st \in process_orders(Started, last.address,
                                   Complete(listing[last.address], "oid", "timestamp")) :
             IsOutcome(st)
    /\ last.op = "fills" =>
          \E st \in process_fills(Started, last.address,
                                  Complete(fillListing[last.address], "tid", "time")) :
             IsOutcome(st)
    /\ last.op \in {"orders", "fills"} =>
          /\ \A i \in DOMAIN writes : writes[i].event_id # "" /\ writes[i].timestamp # 0
          /\ "" \notin DOMAIN logs[Namespace].map
          /\ ~HasKey(active_orders, "")
          /\ "" \notin order_aggregator.ids \cup fill_aggregator.ids

\* a batch held a record without identifier or timestamp and a well-formed
\* record, which was recorded and alerted
C22_Witness ==
    /\ last.op \in {"orders", "fills"}
    /\ LET batch == IF last.op = "orders" THEN listing[last.address]
                    ELSE fillListing[last.address]
       IN  \E i \in DOMAIN batch :
              \/ Lacking(batch[i], "oid", "timestamp") /\ last.op = "orders"
              \/ Lacking(batch[i], "tid", "time") /\ last.op = "fills"
    /\ writes # <<>>
    /\ emitted # <<>>


\* the last step wrote the identifier to the file of the ledger
Recorded(event_type, event_id) ==
    \E i \in DOMAIN writes : /\ writes[i].event_type = event_type
                             /\ writes[i].event_id = event_id
                             /\ writes[i].outcome = "written"

\* the last step emitted an aggregate alert of the kind that counts the
\* identifier
Alerted(event_type, event_id) ==
    \E i \in DOMAIN emitted :
       /\ (IF event_type = "orders" THEN "order_count" ELSE "fill_count")
             \in DOMAIN emitted[i]
       /\ \E r \in emitted[i].about : r[1] = event_id

\* C23: an order or fill identifier that is written to the ledger is counted
\* by an aggregate alert emitted in the same step or in a later one, also
\* when processing raised between the write and the flush of the aggregator.
C23_NoLostEvent ==
    /\ Recorded("orders", "1") ~> Alerted("orders", "1")
    /\ Recorded("orders", "2") ~> Alerted("orders", "2")
    /\ Recorded("orders", "3") ~> Alerted("orders", "3")
    /\ Recorded("fills", "11") ~> Alerted("fills", "11")
    /\ Recorded("fills", "12") ~> Alerted("fills", "12")


\* C24: both aggregators are empty when the processing of an address begins,
\* also after a step in which aggregation raised, and an aggregate alert
\* names the wallet of the step and counts records of the batch fetched for
\* that wallet in the step only.
C24_NoMixedAlerts ==
    /\ pc = "orders" =>
          order_aggregator = NewAggregator /\ fill_aggregator = NewAggregator
    /\ \A i \in DOMAIN emitted :
          "total_volume" \in DOMAIN emitted[i] =>
             /\ emitted[i].wallet = last.address
             /\ emitted[i].about \subseteq Range(BatchKeys)


\* the wallet's listings of open orders can hold the order
ListedFor(address, order_id) ==
    \E record \in env.orders[address] :
       IsObject(record) /\ StrGet(record, "oid", "") = order_id

\* C25: no entry of the active-orders map has canceled, rejected or
\* marginCanceled as its last-known status, and the address of every entry
\* is a configured address whose listing of open orders holds the order.
C25_TrackerEntries ==
    \A i \in DOMAIN active_orders :
       /\ active_orders[i].value.last_status
             \notin {"canceled", "rejected", "marginCanceled"}
       /\ active_orders[i].value.address \in Range(addresses)
       /\ ListedFor(active_orders[i].value.address, active_orders[i].key)

\* a lookup of the last step returned a final status for a tracked order,
\* which is tracked no more, while another order is
C25_Witness ==
    /\ active_orders # <<>>
    /\ \E k \in DOMAIN lookups :
          /\ Get(lookups[k].status_data, "status", "unknown")
                \in {"canceled", "rejected", "marginCanceled"}
          /\ ~HasKey(active_orders, lookups[k].order_id)


\* the side codes the listings give the order
SideCodes(order_id) ==
    {Get(record, "side", None) :
        record \in {r \in UNION {env.orders[a] : a \in Range(addresses)} :
                       IsObject(r) /\ StrGet(r, "oid", "") = order_id}}

\* C26: a status alert names the coin of the status record that
\* get_order_status returned, and the side in its action is buy for an order
\* of side code "B" and sell for any other.
C26_StatusAlertContent ==
    \A k \in DOMAIN lookups :
        LET e == lookups[k]
        IN  e.status_data # EmptyMap =>
              \A i \in StatusAlertsAbout(e.order_id \o "_" \o e.status_data.status,
                                         e.status_data.statusTimestamp) :
                 /\ emitted[i].coin = e.status_data.coin
                 /\ \A code \in SideCodes(e.order_id) :
                       emitted[i].action =
                          (IF code = "B" THEN "buy" ELSE "sell") \o "_order_"
                             \o e.status_data.status

====
